---- MODULE Spec2Model ----
(***************************************************************************)
(* A model of rut, a terminal text editor: the text buffer (buffer.rs),    *)
(* the editor's key commands and its background save threads (editor.rs),  *)
(* and the screen-cursor editing of terminal.rs.                           *)
(* Characters are one-character strings; a rope is the sequence of its     *)
(* characters, so the 0-based index i of the source is position i + 1.     *)
(***************************************************************************)
EXTENDS Integers, Sequences, FiniteSets, TLC

VARIABLES
    buffer,     \* Editor.buffer: the rope's characters
    index,      \* the cursor's buffer index
    coord,      \* the cursor's (col, row): derived from index in editor.rs,
                \* the terminal's own cursor position in terminal.rs
    status,     \* the process: "running", "panicked" or "exited"
    saves,      \* the save threads spawned so far, in spawn order
    lock,       \* Editor.file's mutex: holder (0: free) and poison flag
    file,       \* the backing file: its content and the handle's offset
    call        \* the last operation that ran (in the specifications that
                \* trace the calls), with its arguments and result

vars == <<buffer, index, coord, status, saves, lock, file, call>>

----------------------------------------------------------------------------
(* Bounds of the model. *)

\* longest buffer of a session with save threads
MaxLen == 2
\* longest buffer of a session of editing and movement commands
MaxEditLen == 3
\* longest buffer of a session of cursor moves and word deletions
MaxWordLen == 4
\* longest buffer of a session of terminal.rs
MaxTermLen == 2
\* the window of terminal.rs: columns and rows
WindowLength == 3
WindowHeight == 3
\* longest buffer the buffer operations are applied to
MaxBufLen == 4
\* save threads spawned in one session
MaxSaves == 2

\* the width of the u16 the coordinates are cast to
U16 == 65536

NL == "\n"
Chars == {"a", " ", NL}
None == <<>>

\* char::is_whitespace, on the characters of the model
is_whitespace(c) == c \in {" ", NL, "\t"}

RECURSIVE Strings(_)
Strings(n) ==
    IF n = 0 THEN {<<>>}
    ELSE LET S == Strings(n - 1)
         IN S \cup {Append(s, c) : s \in {t \in S : Len(t) = n - 1}, c \in Chars}

\* the buffers of the spec's examples: "hello world", "  foo  ", "ab\ncdef"
HelloWorld == <<"h", "e", "l", "l", "o", " ", "w", "o", "r", "l", "d">>
FooPadded == <<" ", " ", "f", "o", "o", " ", " ">>
AbCdef == <<"a", "b", NL, "c", "d", "e", "f">>
Examples == {HelloWorld, FooPadded, AbCdef}

Max(S) == CHOOSE x \in S : \A y \in S : y <= x
Min(S) == CHOOSE x \in S : \A y \in S : x <= y

----------------------------------------------------------------------------
(* Buffer (buffer.rs), over ropey's Rope. *)

size(b) == Len(b)

\* insert that puts the character at the end whatever the index
insert_append(b, i, c) ==
    IF i > Len(b) THEN [ok |-> FALSE, rope |-> b]
    ELSE [ok |-> TRUE, rope |-> Append(b, c)]

\* Rope::insert_char panics when index > len_chars
insert(b, i, c) ==
    IF i > Len(b) THEN [ok |-> FALSE, rope |-> b]
    ELSE [ok |-> TRUE,
          rope |-> SubSeq(b, 1, i) \o <<c>> \o SubSeq(b, i + 1, Len(b))]

\* delete that takes the range as inclusive of its end
delete_inclusive(b, start, end) ==
    IF start > end \/ end > Len(b) THEN [ok |-> FALSE, rope |-> b]
    ELSE [ok |-> TRUE,
          rope |-> SubSeq(b, 1, start) \o SubSeq(b, end + 2, Len(b))]

\* Rope::remove panics when start > end or end > len_chars
delete(b, start, end) ==
    IF start > end \/ end > Len(b) THEN [ok |-> FALSE, rope |-> b]
    ELSE [ok |-> TRUE,
          rope |-> SubSeq(b, 1, start) \o SubSeq(b, end + 1, Len(b))]

RECURSIVE cursor_coord_loop(_, _, _, _, _)
cursor_coord_loop(b, idx, i, current_line, current_line_start) ==
    IF i >= Len(b)
    THEN <<(idx - current_line_start) % U16, current_line % U16>>
    ELSE IF i = idx
    THEN <<(i - current_line_start) % U16, current_line % U16>>
    ELSE IF b[i + 1] = NL
    THEN cursor_coord_loop(b, idx, i + 1, current_line + 1, i + 1)
    ELSE cursor_coord_loop(b, idx, i + 1, current_line, current_line_start)

RECURSIVE cursor_coord_loop_stale(_, _, _, _, _)
cursor_coord_loop_stale(b, idx, i, current_line, current_line_start) ==
    IF i >= Len(b)
    THEN <<(idx - current_line_start) % U16, current_line % U16>>
    ELSE IF i = idx
    THEN <<(i - current_line_start) % U16, current_line % U16>>
    ELSE IF b[i + 1] = NL
    THEN cursor_coord_loop_stale(b, idx, i + 1, current_line + 1, i)
    ELSE cursor_coord_loop_stale(b, idx, i + 1, current_line, current_line_start)

\* cursor_coord with the line start left on the newline itself
cursor_coord_stale(b, idx) ==
    IF idx > size(b) THEN None ELSE cursor_coord_loop_stale(b, idx, 0, 0, 0)

cursor_coord(b, idx) ==
    IF idx > size(b) THEN None ELSE cursor_coord_loop(b, idx, 0, 0, 0)

\* the reversed iterator yields the characters idx-1, idx-2, ..., 0
RECURSIVE start_of_word_loop(_, _, _, _)
start_of_word_loop(b, idx, i, skipping_whitespace) ==
    IF i >= idx THEN idx
    ELSE LET c == b[idx - i]
         IN IF i = 0 /\ is_whitespace(c)
            THEN start_of_word_loop(b, idx, i + 1, TRUE)
            ELSE IF skipping_whitespace /\ ~is_whitespace(c)
            THEN start_of_word_loop(b, idx, i + 1, FALSE)
            ELSE IF idx - (i + 1) = 0
            THEN 0
            ELSE IF ~skipping_whitespace /\ is_whitespace(c)
            THEN idx - i
            ELSE start_of_word_loop(b, idx, i + 1, skipping_whitespace)

start_of_word(b, idx) ==
    IF idx = 0 THEN 0 ELSE start_of_word_loop(b, idx, 0, FALSE)

RECURSIVE end_of_word_loop(_, _, _, _)
end_of_word_loop(b, idx, i, skipping_whitespace) ==
    IF i >= Len(b) THEN idx
    ELSE LET c == b[i + 1]
         IN IF i = idx /\ is_whitespace(c)
            THEN end_of_word_loop(b, idx, i + 1, TRUE)
            ELSE IF skipping_whitespace /\ ~is_whitespace(c)
            THEN end_of_word_loop(b, idx, i + 1, FALSE)
            ELSE IF ~skipping_whitespace /\ is_whitespace(c)
            THEN i
            ELSE end_of_word_loop(b, idx, i + 1, skipping_whitespace)

RECURSIVE end_of_word_loop_noskip(_, _, _, _)
end_of_word_loop_noskip(b, idx, i, skipping_whitespace) ==
    IF i >= Len(b) THEN idx
    ELSE IF is_whitespace(b[i + 1]) THEN i
    ELSE end_of_word_loop_noskip(b, idx, i + 1, skipping_whitespace)

\* end_of_word without the skip of the leading whitespace
end_of_word_noskip(b, idx) ==
    IF idx > size(b) THEN idx ELSE end_of_word_loop_noskip(b, idx, idx, FALSE)

end_of_word(b, idx) ==
    IF idx > size(b) THEN idx ELSE end_of_word_loop(b, idx, idx, FALSE)

\* Rope::len_lines: one more than the number of line breaks
line_count(b) == Cardinality({k \in 1..Len(b) : b[k] = NL}) + 1

\* the index of the first character of line n (Rope::line_to_char)
line_to_char(b, n) ==
    IF n = 0 THEN 0
    ELSE Min({k \in 1..Len(b) :
                 b[k] = NL /\ Cardinality({j \in 1..k : b[j] = NL}) = n})

\* Rope::line: line n with its line break, if it has one; panics past the end
line(b, n) ==
    IF n >= line_count(b) THEN [ok |-> FALSE, text |-> <<>>]
    ELSE LET first == line_to_char(b, n)
             last == IF n + 1 = line_count(b) THEN Len(b)
                     ELSE line_to_char(b, n + 1)
         IN [ok |-> TRUE, text |-> SubSeq(b, first + 1, last)]

line_len(b, n) == Len(line(b, n).text)

----------------------------------------------------------------------------
(* The cursor the editor moves (Editor.terminal.cursor()): its buffer index *)
(* and the coordinate derived from it.                                      *)

clamp(b, i) == IF i < 0 THEN 0 ELSE IF i > size(b) THEN size(b) ELSE i

move_left(b, i) == clamp(b, i - 1)

move_right(b, i) == clamp(b, i + 1)

\* the move onto line target, keeping column col where the line is long enough
move_to_line(b, target, col) ==
    IF line_len(b, target) >= col
    THEN line_to_char(b, target) + col
    ELSE line_to_char(b, target) + line_len(b, target)

move_up(b, i) ==
    LET c == cursor_coord(b, i)
    IN IF c = None \/ c[2] = 0 THEN i ELSE move_to_line(b, c[2] - 1, c[1])

move_down(b, i) ==
    LET c == cursor_coord(b, i)
    IN IF c = None \/ c[2] >= line_count(b) - 1 THEN i
       ELSE move_to_line(b, c[2] + 1, c[1])

move_word_left(b, i) == IF i = 0 THEN i ELSE start_of_word(b, i)

move_word_right(b, i) == IF i >= size(b) THEN i ELSE end_of_word(b, i)

RECURSIVE move_left_times(_, _, _)
move_left_times(b, i, n) ==
    IF n = 0 THEN i ELSE move_left_times(b, move_left(b, i), n - 1)

----------------------------------------------------------------------------
(* The file behind Editor.file, and the save threads' view of it. *)

NoLock == [holder |-> 0, poisoned |-> FALSE]

\* File::set_len(0): the content goes, the offset stays
set_len_0(f) == [f EXCEPT !.content = <<>>]

\* Seek::rewind
rewind(f) == [f EXCEPT !.pos = 0]

\* a write of data at the handle's offset, over what is there
write(f, data) ==
    LET old == f.content
        head == IF f.pos <= Len(old) THEN SubSeq(old, 1, f.pos)
                ELSE old \o [k \in 1..(f.pos - Len(old)) |-> "0"]
        tail == SubSeq(old, f.pos + Len(data) + 1, Len(old))
    IN [content |-> head \o data \o tail, pos |-> f.pos + Len(data)]

Threads == 1..Len(saves)

\* a thread between taking the lock and the end of its write
InProgress(t) == saves[t].pc \in {"set_len", "rewind", "write"}

----------------------------------------------------------------------------
(* Editor (editor.rs). *)

\* the last operation, where the specification traces the calls
Traced(c) == IF call.op = "untraced" THEN call ELSE c

InitWith(B, c) ==
    /\ buffer \in B
    /\ index = 0
    /\ coord = cursor_coord(buffer, 0)
    /\ status = "running"
    /\ saves = <<>>
    /\ lock = NoLock
    /\ file = [content |-> buffer, pos |-> Len(buffer)]
    /\ call = c

Init == InitWith(Strings(MaxLen), [op |-> "untraced"])

\* a cursor command: the index moves, the coordinate is recomputed
\* a cursor move that first waits for the file lock to be free
MovedLocked(op, i) ==
    /\ status = "running"
    /\ lock.holder = 0
    /\ index' = i
    /\ coord' = cursor_coord(buffer, i)
    /\ call' = Traced([op |-> op])
    /\ UNCHANGED <<buffer, status, saves, lock, file>>

Moved(op, i) ==
    /\ status = "running"
    /\ index' = i
    /\ coord' = cursor_coord(buffer, i)
    /\ call' = Traced([op |-> op])
    /\ UNCHANGED <<buffer, status, saves, lock, file>>

\* an edit that ran to its end: the frame and the cursor are updated
EditedCall(c, b, i) ==
    /\ buffer' = b
    /\ index' = i
    /\ coord' = cursor_coord(b, i)
    /\ call' = Traced(c)
    /\ UNCHANGED <<status, saves, lock, file>>

Edited(op, b, i) == EditedCall([op |-> op], b, i)

\* a panic on the foreground thread ends the process
Panicked(op) ==
    /\ status' = "panicked"
    /\ call' = Traced([op |-> op])
    /\ UNCHANGED <<buffer, index, coord, saves, lock, file>>

KeyUp == Moved("move_up", move_up(buffer, index))

KeyDown == Moved("move_down", move_down(buffer, index))

KeyLeft == Moved("move_left", move_left(buffer, index))

KeyRight == Moved("move_right", move_right(buffer, index))

KeyWordLeft == Moved("move_word_left", move_word_left(buffer, index))

KeyWordRight == Moved("move_word_right", move_word_right(buffer, index))

insert_char(c) ==
    /\ status = "running"
    /\ LET r == insert(buffer, index, c)
       IN IF r.ok
          THEN EditedCall([op |-> "insert_char", char |-> c], r.rope,
                          move_right(r.rope, index))
          ELSE Panicked("insert_char")

\* remove_char with every deletion followed by no cursor move
remove_char_nomove(mode) ==
    /\ status = "running"
    /\ IF index = 0 /\ mode = "Backspace"
       THEN /\ call' = Traced([op |-> mode])
            /\ UNCHANGED <<buffer, index, coord, status, saves, lock, file>>
       ELSE LET buffer_index == IF mode = "Backspace" THEN index - 1 ELSE index
                r == delete(buffer, buffer_index, buffer_index + 1)
            IN IF r.ok THEN Edited(mode, r.rope, index) ELSE Panicked(mode)

\* remove_char without the early return for Backspace at index 0
remove_char_noguard(mode) ==
    /\ status = "running"
    /\ LET buffer_index == IF mode = "Backspace" THEN index - 1 ELSE index
           r == delete(buffer, buffer_index, buffer_index + 1)
       IN IF buffer_index >= 0 /\ r.ok
          THEN Edited(mode, r.rope,
                      IF mode = "Backspace" THEN move_left(r.rope, index)
                      ELSE index)
          ELSE Panicked(mode)

\* remove_char whose Backspace deletes at the cursor, buffer_index not lowered
remove_char_forward(mode) ==
    /\ status = "running"
    /\ IF index = 0 /\ mode = "Backspace"
       THEN /\ call' = Traced([op |-> mode])
            /\ UNCHANGED <<buffer, index, coord, status, saves, lock, file>>
       ELSE LET r == delete(buffer, index, index + 1)
            IN IF r.ok
               THEN Edited(mode, r.rope,
                           IF mode = "Backspace" THEN move_left(r.rope, index)
                           ELSE index)
               ELSE Panicked(mode)

remove_char(mode) ==
    /\ status = "running"
    /\ IF index = 0 /\ mode = "Backspace"
       THEN /\ call' = Traced([op |-> mode])
            /\ UNCHANGED <<buffer, index, coord, status, saves, lock, file>>
       ELSE LET buffer_index == IF mode = "Backspace" THEN index - 1 ELSE index
                r == delete(buffer, buffer_index, buffer_index + 1)
            IN IF r.ok
               THEN Edited(mode, r.rope,
                           IF mode = "Backspace" THEN move_left(r.rope, index)
                           ELSE index)
               ELSE Panicked(mode)

remove_word ==
    /\ status = "running"
    /\ LET word_end == index
           word_start == start_of_word(buffer, word_end)
           r == delete(buffer, word_start, word_end)
       IN IF r.ok
          THEN Edited("remove_word", r.rope,
                      move_left_times(r.rope, index, word_end - word_start))
          ELSE Panicked("remove_word")

\* Ctrl+S: the buffer is cloned and a thread is spawned to write the clone
save ==
    /\ status = "running"
    /\ saves' = Append(saves, [pc |-> "lock", buffer |-> buffer])
    /\ call' = Traced([op |-> "save"])
    /\ UNCHANGED <<buffer, index, coord, status, lock, file>>

\* Ctrl+C: process::exit(0), which ends the save threads with the process
exit ==
    /\ status = "running"
    /\ status' = "exited"
    /\ call' = Traced([op |-> "exit"])
    /\ UNCHANGED <<buffer, index, coord, saves, lock, file>>

\* the arms of handle_key_event that move the cursor
move_key_event ==
    \/ KeyUp
    \/ KeyDown
    \/ KeyLeft
    \/ KeyRight
    \/ KeyWordLeft
    \/ KeyWordRight

\* the arms that delete from the buffer
remove_key_event ==
    \/ remove_char("Backspace")
    \/ remove_word
    \/ remove_char("Delete")

\* the arms that insert into the buffer: Enter and the character keys
insert_key_event ==
    \/ insert_char(NL)
    \/ \E c \in Chars \ {NL} : insert_char(c)

----------------------------------------------------------------------------
(* A save thread (the closure of Editor::save, Buffer::write_to_file). *)

\* a thread that panicked has dropped its clone of the buffer; the record of
\* one that ended normally keeps it, as the content that save wrote
ThreadStep(t, op, pc, l, f) ==
    /\ saves' = [saves EXCEPT ![t] =
                    [pc |-> pc,
                     buffer |-> IF pc = "panicked" THEN <<>>
                                ELSE saves[t].buffer]]
    /\ lock' = l
    /\ file' = f
    /\ call' = Traced([op |-> "save_thread"])
    /\ UNCHANGED <<buffer, index, coord, status>>

\* a panic of a save thread that takes the whole process down
ThreadPanicAborts(t, op, f) ==
    /\ saves' = [saves EXCEPT ![t] = [pc |-> "panicked", buffer |-> <<>>]]
    /\ lock' = [holder |-> 0, poisoned |-> TRUE]
    /\ file' = f
    /\ call' = Traced([op |-> "save_thread"])
    /\ status' = "panicked"
    /\ UNCHANGED <<buffer, index, coord>>

\* a panic of the thread that holds the guard poisons the mutex and frees it
ThreadPanic(t, op, f) ==
    ThreadStep(t, op, "panicked", [holder |-> 0, poisoned |-> TRUE], f)

\* file.lock() that does not wait for the holder
SaveLockUnguarded(t) ==
    /\ status = "running"
    /\ saves[t].pc = "lock"
    /\ IF lock.poisoned
       THEN ThreadStep(t, "lock", "panicked", lock, file)
       ELSE ThreadStep(t, "lock", "set_len", [lock EXCEPT !.holder = t], file)

\* file.lock().expect(..): waits for the mutex; a poisoned mutex is an Err
SaveLock(t) ==
    /\ status = "running"
    /\ saves[t].pc = "lock"
    /\ lock.holder = 0
    /\ IF lock.poisoned
       THEN ThreadStep(t, "lock", "panicked", lock, file)
       ELSE ThreadStep(t, "lock", "set_len", [lock EXCEPT !.holder = t], file)

SaveSetLen(t) ==
    /\ status = "running"
    /\ saves[t].pc = "set_len"
    /\ \/ ThreadStep(t, "set_len", "rewind", lock, set_len_0(file))
       \/ ThreadPanic(t, "set_len", file)

SaveRewind(t) ==
    /\ status = "running"
    /\ saves[t].pc = "rewind"
    /\ \/ ThreadStep(t, "rewind", "write", lock, rewind(file))
       \/ ThreadPanic(t, "rewind", file)

\* SaveWrite writing the editor's live buffer, not the thread's clone of it
SaveWriteLive(t) ==
    /\ status = "running"
    /\ saves[t].pc = "write"
    /\ \/ ThreadStep(t, "write", "done", [lock EXCEPT !.holder = 0],
                     write(file, buffer))
       \/ \E k \in 0..Len(buffer) :
             ThreadPanic(t, "write", write(file, SubSeq(buffer, 1, k)))

\* Rope::write_to, then the guard is dropped; an error may follow a partial write
SaveWrite(t) ==
    /\ status = "running"
    /\ saves[t].pc = "write"
    /\ \/ ThreadStep(t, "write", "done", [lock EXCEPT !.holder = 0],
                     write(file, saves[t].buffer))
       \/ \E k \in 0..Len(saves[t].buffer) :
             ThreadPanic(t, "write", write(file, SubSeq(saves[t].buffer, 1, k)))

----------------------------------------------------------------------------
(* The specifications. *)

\* a session: key commands and the save threads they spawn
Next ==
    \/ exit
    \/ Len(saves) < MaxSaves /\ save
    \/ move_key_event
    \/ remove_key_event
    \/ Len(buffer) < MaxLen /\ insert_key_event
    \/ \E t \in Threads : SaveLock(t)
    \/ \E t \in Threads : SaveSetLen(t)
    \/ \E t \in Threads : SaveRewind(t)
    \/ \E t \in Threads : SaveWrite(t)

Spec == Init /\ [][Next]_vars

\* a session in which nothing is saved: the cursor and the buffer alone
InitEdit == InitWith(Strings(MaxEditLen), [op |-> "new"])

NextEdit ==
    \/ move_key_event
    \/ remove_key_event
    \/ Len(buffer) < MaxEditLen /\ insert_key_event

SpecEdit == InitEdit /\ [][NextEdit]_vars

\* the buffer operations applied one at a time to a buffer that no file backs
InitBuffer ==
    /\ buffer \in Strings(MaxBufLen) \cup Examples
    /\ index = 0
    /\ coord = cursor_coord(buffer, 0)
    /\ status = "running"
    /\ saves = <<>>
    /\ lock = NoLock
    /\ file = [content |-> <<>>, pos |-> 0]
    /\ call = [op |-> "new"]

\* a call that returns ret and leaves the buffer as it is
Returned(c) ==
    /\ status = "running"
    /\ call' = c
    /\ UNCHANGED <<buffer, index, coord, status, saves, lock, file>>

\* a call that changes the rope, or panics in ropey
Mutated(c, r) ==
    /\ status = "running"
    /\ call' = c
    /\ buffer' = r.rope
    /\ status' = IF r.ok THEN status ELSE "panicked"
    /\ UNCHANGED <<index, coord, saves, lock, file>>

CallCursorCoord ==
    \E i \in 0..(Len(buffer) + 1) :
        Returned([op |-> "cursor_coord", index |-> i,
                  ret |-> cursor_coord(buffer, i)])

CallStartOfWord ==
    \E i \in 0..Len(buffer) :
        Returned([op |-> "start_of_word", index |-> i,
                  ret |-> start_of_word(buffer, i)])

CallEndOfWord ==
    \E i \in 0..(Len(buffer) + 1) :
        Returned([op |-> "end_of_word", index |-> i,
                  ret |-> end_of_word(buffer, i)])

CallLineLen ==
    \E n \in 0..(line_count(buffer) - 1) :
        Returned([op |-> "line_len", line |-> n, ret |-> line_len(buffer, n)])

CallInsert ==
    /\ Len(buffer) < MaxBufLen
    /\ \E i \in 0..Len(buffer), c \in Chars :
          Mutated([op |-> "insert", index |-> i, char |-> c, before |-> buffer],
                  insert(buffer, i, c))

CallDelete ==
    /\ Len(buffer) <= MaxBufLen
    /\ \E start \in 0..(Len(buffer) + 1), end \in 0..(Len(buffer) + 1) :
          Mutated([op |-> "delete", start |-> start, end |-> end,
                   before |-> buffer],
                  delete(buffer, start, end))

\* insert(i, c) and then delete(i..i+1) on its result
CallInsertDelete ==
    \E i \in 0..Len(buffer), c \in Chars :
        LET inserted == insert(buffer, i, c)
        IN Mutated([op |-> "insert_delete", index |-> i, char |-> c,
                    before |-> buffer],
                   IF inserted.ok THEN delete(inserted.rope, i, i + 1)
                   ELSE inserted)

NextBuffer ==
    \/ CallCursorCoord
    \/ CallStartOfWord
    \/ CallEndOfWord
    \/ CallLineLen
    \/ CallInsert
    \/ CallDelete
    \/ CallInsertDelete

SpecBuffer == InitBuffer /\ [][NextBuffer]_vars

----------------------------------------------------------------------------
(* What the specification says of the buffer operations, stated apart from *)
(* the loops above.                                                        *)

\* the positions of the newlines among the first i characters
NewlinesBefore(b, i) == {k \in 1..i : b[k] = NL}

\* the index just after the last newline before i, or 0
LineStartBefore(b, i) == Max(NewlinesBefore(b, i) \cup {0})

CoordOf(b, i) == <<i - LineStartBefore(b, i), Cardinality(NewlinesBefore(b, i))>>

\* back from j over the run of characters whose whitespace-ness is ws
RECURSIVE SkipBack(_, _, _)
SkipBack(b, j, ws) ==
    IF j > 0 /\ is_whitespace(b[j]) = ws THEN SkipBack(b, j - 1, ws) ELSE j

\* forward from j over the run of characters whose whitespace-ness is ws
RECURSIVE SkipForward(_, _, _)
SkipForward(b, j, ws) ==
    IF j < Len(b) /\ is_whitespace(b[j + 1]) = ws
    THEN SkipForward(b, j + 1, ws) ELSE j

WordStart(b, i) == SkipBack(b, SkipBack(b, i, TRUE), FALSE)

WordEnd(b, i) ==
    IF i >= Len(b) THEN i ELSE SkipForward(b, SkipForward(b, i, TRUE), FALSE)

\* the characters of line n, its newline not counted
LineLenNoBreak(b, n) ==
    LET t == line(b, n).text
    IN IF Len(t) > 0 /\ t[Len(t)] = NL THEN Len(t) - 1 ELSE Len(t)

----------------------------------------------------------------------------
(* The claims. *)

\* C1: after any sequence of key commands from cursor index 0, the cursor's
\* buffer index lies in [0, size] and cursor_coord of it is defined.
C1_IndexInBounds ==
    /\ 0 <= index
    /\ index <= size(buffer)
    /\ cursor_coord(buffer, index) # None
    /\ coord # None

\* C1: the cursor was moved to the end of a non-empty buffer in a session
\* that also spawned a save.
C1_Witness ==
    /\ status = "running"
    /\ index > 0
    /\ index = size(buffer)
    /\ Len(saves) > 0

\* C2: every key command completes without panicking (no reachable state is
\* that of a foreground panic).
C2_NoPanic == status # "panicked"

\* C3: cursor_coord(i) for 0 <= i <= size is (col, row): row the number of
\* newlines in B[0..i), col the distance of i from the index just after the
\* last newline before i (from 0 if there is none).
C3_CursorCoord ==
    (call.op = "cursor_coord" /\ call.index <= size(buffer))
        => call.ret = CoordOf(buffer, call.index)

\* C3: cursor_coord returned a coordinate past the first row and column.
C3_Witness ==
    /\ call.op = "cursor_coord"
    /\ call.index <= size(buffer)
    /\ call.ret # None
    /\ call.ret[1] > 0
    /\ call.ret[2] > 0

\* C4: delete(range) with an empty range, or one that ends past the size, does
\* not panic and leaves the content unchanged.
C4_DeleteNoOp ==
    (call.op = "delete"
        /\ call.start <= call.end
        /\ (call.start = call.end \/ call.end > size(call.before)))
        => (status = "running" /\ buffer = call.before)

\* C5: start_of_word(i) for 0 <= i <= size skips the whitespace run before i,
\* then the non-whitespace run before that, and returns where it stops.
C5_StartOfWord ==
    call.op = "start_of_word" => call.ret = WordStart(buffer, call.index)

\* C6: end_of_word(i) for i < size skips the whitespace run at i, then the
\* non-whitespace run, and returns where it stops (size at the end of the
\* buffer); for i >= size it returns i.
C6_EndOfWord ==
    call.op = "end_of_word" => call.ret = WordEnd(buffer, call.index)

\* C7, as the spec states it: on "  foo  ", end_of_word(0) yields 4.
C7_FooYields4 ==
    (call.op = "end_of_word" /\ buffer = FooPadded /\ call.index = 0)
        => call.ret = 4

\* C7, amended: on "  foo  ", end_of_word(0) skips the leading whitespace and
\* the word and yields 5, the index of the first whitespace after "foo".
C7_FooYields5 ==
    (call.op = "end_of_word" /\ buffer = FooPadded /\ call.index = 0)
        => (call.ret = 5 /\ call.ret = WordEnd(FooPadded, 0))

\* C7: end_of_word(0) was applied to "  foo  ".
C7_Witness ==
    /\ call.op = "end_of_word"
    /\ buffer = FooPadded
    /\ call.index = 0
    /\ status = "running"

\* C8: line_len(line) of a valid line is the number of its characters, its
\* terminating newline not counted.
C8_LineLen ==
    call.op = "line_len" => call.ret = LineLenNoBreak(buffer, call.line)

\* C9: move_up from (col, row), row > 0, leaves the cursor on row - 1 at
\* column min(col, length of row - 1 without its newline) and is a no-op on
\* row 0; move_down likewise onto row + 1, a no-op on the last line.
C9_VerticalMoves ==
    [][LET col == coord[1]
           row == coord[2]
       IN /\ call'.op = "move_up" =>
                IF row = 0 THEN index' = index
                ELSE coord' = <<Min({col, LineLenNoBreak(buffer, row - 1)}),
                                row - 1>>
          /\ call'.op = "move_down" =>
                IF row = line_count(buffer) - 1 THEN index' = index
                ELSE coord' = <<Min({col, LineLenNoBreak(buffer, row + 1)}),
                                row + 1>>]_vars

\* C10: at most one save thread is between taking the file and the end of
\* its write (set_len(0), rewind, write), and it is the holder of the lock.
C10_MutualExclusion ==
    \A t1, t2 \in Threads :
        (InProgress(t1) /\ InProgress(t2)) => (t1 = t2 /\ lock.holder = t1)

\* C10: one save is about to write while another waits for the lock.
C10_Witness ==
    \E t1, t2 \in Threads :
        /\ saves[t1].pc = "write"
        /\ saves[t2].pc = "lock"

\* a save thread that has not ended: it still owns its clone of the buffer
Live(rec) == rec.pc \in {"lock", "set_len", "rewind", "write"}

\* C11: the clone a save thread is given is the buffer as it is when Ctrl+S
\* is handled, no later step changes it while the thread lives, and the
\* write that ends the save leaves exactly that content in the file.
C11_SnapshotIsolation ==
    [][/\ Len(saves') > Len(saves) => saves'[Len(saves')].buffer = buffer
       /\ \A t \in Threads :
             (Live(saves[t]) /\ Live(saves'[t]))
                 => saves'[t].buffer = saves[t].buffer
       /\ \A t \in Threads :
             (saves[t].pc = "write" /\ saves'[t].pc = "done")
                 => file'.content = saves[t].buffer]_vars

\* C11: a save is between its truncation and its write while the foreground
\* has already changed the live buffer.
C11_Witness ==
    \E t \in Threads :
        /\ saves[t].pc = "write"
        /\ file.content = <<>>
        /\ saves[t].buffer # buffer
        /\ status = "running"

\* C12: of two saves the one requested first takes the lock and ends before
\* the other touches the file, and when the two newest saves have both ended
\* without error the file holds the snapshot of the later one.
C12_SaveOrderFifo ==
    \A t1, t2 \in Threads :
        t1 < t2 =>
            /\ saves[t2].pc \in {"set_len", "rewind", "write", "done"}
                   => saves[t1].pc \in {"done", "panicked"}
            /\ (t2 = Len(saves) /\ saves[t1].pc = "done"
                                /\ saves[t2].pc = "done")
                   => file.content = saves[t2].buffer

\* C13: a step in which a save thread fails (set_len, rewind or write_to
\* returns an error, or the mutex is found poisoned) leaves the foreground
\* running, and the live buffer and the cursor as they were.
C13_SaveFailureIsolated ==
    [][\A t \in Threads :
          (saves[t].pc # "panicked" /\ saves'[t].pc = "panicked")
              => /\ status' = "running"
                 /\ buffer' = buffer
                 /\ index' = index
                 /\ coord' = coord]_vars

\* C13: a save has failed while it held the file (the mutex is poisoned) and
\* left the file shorter than the live buffer; the session still runs.
C13_Witness ==
    /\ \E t \in Threads : saves[t].pc = "panicked"
    /\ lock.poisoned
    /\ lock.holder = 0
    /\ status = "running"
    /\ Len(buffer) > Len(file.content)

\* C14: Backspace with the cursor at index 0 changes neither the buffer nor
\* the cursor, and the session keeps running.
C14_BackspaceAtStart ==
    [][(call'.op = "Backspace" /\ index = 0)
          => /\ buffer' = buffer
             /\ index' = index
             /\ coord' = coord
             /\ status' = "running"]_vars

\* C14: Backspace was the last key, the cursor is at index 0 and the buffer
\* has the greatest length an edit sequence can reach, so that Backspace
\* deleted nothing: it was pressed at index 0.
C14_Witness ==
    /\ call.op = "Backspace"
    /\ index = 0
    /\ Len(buffer) = MaxEditLen
    /\ status = "running"

\* C15: insert_char(c) with the cursor at index i leaves the buffer as
\* old[0..i) ++ c ++ old[i..), one character longer, and the cursor at i + 1;
\* for a newline the cursor is then at column 0 of the next row.
C15_InsertChar ==
    [][call'.op = "insert_char"
          => /\ status' = "running"
             /\ Len(buffer') = Len(buffer) + 1
             /\ \A k \in 1..Len(buffer') :
                   buffer'[k] = IF k <= index THEN buffer[k]
                                ELSE IF k = index + 1 THEN call'.char
                                ELSE buffer[k - 1]
             /\ index' = index + 1
             /\ call'.char = NL => coord' = <<0, coord[2] + 1>>]_vars

\* C15: a newline was inserted inside a line, with text on both sides.
C15_Witness ==
    /\ call.op = "insert_char"
    /\ call.char = NL
    /\ index > 1
    /\ index < Len(buffer)
    /\ buffer[index - 1] # NL
    /\ coord[1] = 0

\* C16: Backspace at i > 0 removes the character at i - 1 alone and leaves
\* the cursor at i - 1; Delete at i < size removes the character at i alone
\* and leaves the cursor at i; the other characters keep their order.
C16_RemoveChar ==
    [][/\ (call'.op = "Backspace" /\ index > 0)
            => /\ status' = "running"
               /\ Len(buffer') = Len(buffer) - 1
               /\ \A k \in 1..Len(buffer') :
                     buffer'[k] = IF k < index THEN buffer[k] ELSE buffer[k + 1]
               /\ index' = index - 1
       /\ (call'.op = "Delete" /\ index < size(buffer))
            => /\ status' = "running"
               /\ Len(buffer') = Len(buffer) - 1
               /\ \A k \in 1..Len(buffer') :
                     buffer'[k] = IF k <= index THEN buffer[k] ELSE buffer[k + 1]
               /\ index' = index]_vars

\* C16: Backspace removed a character from inside the buffer: the cursor is
\* neither at the start nor at the end after it.
C16_Witness ==
    /\ call.op = "Backspace"
    /\ index > 0
    /\ index < Len(buffer)
    /\ status = "running"

\* C17: insert(i, c) followed by delete(i..i+1) neither panics nor changes
\* the buffer, for every index i in [0, size] and every character c.
C17_RoundTrip ==
    call.op = "insert_delete"
        => /\ status = "running"
           /\ buffer = call.before

\* C17: the round trip was applied inside a buffer, between two characters.
C17_Witness ==
    /\ call.op = "insert_delete"
    /\ call.index > 0
    /\ call.index < Len(buffer)
    /\ status = "running"

\* C18: while the session runs, whatever the save threads are doing (waiting
\* for the lock, holding it, in the middle of a write), every movement and
\* editing key can be handled, and a step of the foreground (one that is not
\* a step of a save thread) leaves the lock as it is.
C18_ForegroundNotStalled ==
    /\ [](status = "running"
            => /\ ENABLED KeyUp
               /\ ENABLED KeyDown
               /\ ENABLED KeyLeft
               /\ ENABLED KeyRight
               /\ ENABLED KeyWordLeft
               /\ ENABLED KeyWordRight
               /\ ENABLED remove_word
               /\ \A mode \in {"Backspace", "Delete"} : ENABLED remove_char(mode)
               /\ \A c \in Chars : ENABLED insert_char(c))
    /\ [][(\A t \in Threads : saves'[t] = saves[t]) => lock' = lock]_vars

\* C18: a save thread holds the lock in the middle of its write and the
\* foreground has edited the buffer since that save was requested.
C18_Witness ==
    \E t \in Threads :
        /\ lock.holder = t
        /\ saves[t].pc \in {"rewind", "write"}
        /\ saves[t].buffer # buffer
        /\ index # 0
        /\ status = "running"

\* C19: a save that was requested runs to the end of its truncate-and-write
\* also when Ctrl+C is pressed meanwhile: once the process has exited no save
\* is left waiting or between set_len and the end of its write.
C19_ExitCompletesSaves ==
    status = "exited"
        => \A t \in Threads : saves[t].pc \notin {"lock", "set_len", "rewind", "write"}

----------------------------------------------------------------------------
(* terminal.rs: the buffer is edited at the terminal's cursor position,    *)
(* coord = (cursor_x, cursor_y) as cursor::position() returns it.          *)

CursorMovements == {"Up", "Down", "Left", "Right"}

Terminal_line_count(b) == line_count(b)

\* the length of a line, its newline not counted
line_length(b, n) ==
    LET text == line(b, n).text
    IN IF Len(text) > 0 /\ text[Len(text)] = NL THEN Len(text) - 1
       ELSE Len(text)

RECURSIVE line_start_index_loop(_, _, _, _)
line_start_index_loop(b, n, i, idx) ==
    IF i = n THEN idx
    ELSE line_start_index_loop(b, n, i + 1, idx + Len(line(b, i).text))

line_start_index(b, n) == line_start_index_loop(b, n, 0, 0)

Some(x) == <<x>>

\* the buffer index under the cursor, None when the cursor is off the text
get_buffer_coord(b, cur) ==
    LET cursor_x == cur[1]
        cursor_y == cur[2]
    IN IF cursor_y >= Terminal_line_count(b) THEN None
       ELSE IF cursor_x > line_length(b, cursor_y) THEN None
       ELSE Some(line_start_index(b, cursor_y) + cursor_x)

\* the position move_cursor asks the terminal for, None when it returns early
move_target(cur, movement) ==
    LET cursor_x == cur[1]
        cursor_y == cur[2]
        max_x == WindowLength - 1
        max_y == WindowHeight - 1
    IN CASE movement = "Up" ->
              IF cursor_y > 0 THEN <<cursor_x, cursor_y - 1>> ELSE None
         [] movement = "Down" ->
              IF cursor_y < WindowHeight - 1 THEN <<cursor_x, cursor_y + 1>>
              ELSE None
         [] movement = "Left" ->
              IF cursor_x = 0 /\ cursor_y = 0 THEN None
              ELSE IF cursor_x > 0 THEN <<cursor_x - 1, cursor_y>>
              ELSE <<WindowLength, cursor_y - 1>>
         [] movement = "Right" ->
              IF cursor_x = max_x /\ cursor_y = max_y THEN None
              ELSE IF cursor_x < max_x THEN <<cursor_x + 1, cursor_y>>
              ELSE <<0, cursor_y + 1>>

\* the terminal keeps its cursor inside the window
moved_cursor(cur, movement) ==
    LET target == move_target(cur, movement)
    IN IF target = None THEN cur
       ELSE <<Min({target[1], WindowLength - 1}),
              Min({target[2], WindowHeight - 1})>>

Terminal_move_cursor(movement) ==
    /\ status = "running"
    /\ coord' = moved_cursor(coord, movement)
    /\ call' = [op |-> "Terminal_move_cursor", movement |-> movement,
                target |-> move_target(coord, movement)]
    /\ UNCHANGED <<buffer, index, status, saves, lock, file>>

Terminal_insert_char(character) ==
    /\ status = "running"
    /\ call' = [op |-> "Terminal_insert_char", char |-> character]
    /\ LET found == get_buffer_coord(buffer, coord)
           buffer_coordinate == found[1]
       IN IF found = None
          THEN UNCHANGED <<buffer, coord, status>>
          ELSE LET r == insert(buffer, buffer_coordinate, character)
               IN /\ buffer' = r.rope
                  /\ status' = IF r.ok THEN status ELSE "panicked"
                  /\ coord' = IF ~r.ok THEN coord
                              ELSE moved_cursor(coord,
                                       IF character = NL THEN "Down"
                                       ELSE "Right")
    /\ UNCHANGED <<index, saves, lock, file>>

\* buffer_coordinate - 1 underflows at 0: a panic, or a wrapped range start
\* that Rope::remove panics on
Terminal_remove_char(delete_mode) ==
    /\ status = "running"
    /\ call' = [op |-> "Terminal_remove_char", delete_mode |-> delete_mode]
    /\ LET found == get_buffer_coord(buffer, coord)
           buffer_coordinate == found[1]
       IN IF found = None
          THEN UNCHANGED <<buffer, coord, status>>
          ELSE LET r == IF delete_mode
                        THEN delete(buffer, buffer_coordinate,
                                    buffer_coordinate + 1)
                        ELSE IF buffer_coordinate = 0
                        THEN [ok |-> FALSE, rope |-> buffer]
                        ELSE delete(buffer, buffer_coordinate - 1,
                                    buffer_coordinate)
               IN /\ buffer' = r.rope
                  /\ status' = IF r.ok THEN status ELSE "panicked"
                  /\ coord' = IF r.ok /\ ~delete_mode
                              THEN moved_cursor(coord, "Left")
                              ELSE coord
    /\ UNCHANGED <<index, saves, lock, file>>

\* Terminal::init leaves the cursor at (0, 0)
InitTerminal ==
    /\ buffer \in Strings(MaxTermLen)
    /\ index = 0
    /\ coord = <<0, 0>>
    /\ status = "running"
    /\ saves = <<>>
    /\ lock = NoLock
    /\ file = [content |-> <<>>, pos |-> 0]
    /\ call = [op |-> "new"]

NextTerminal ==
    \/ \E movement \in CursorMovements : Terminal_move_cursor(movement)
    \/ Len(buffer) < MaxTermLen /\ \E c \in Chars : Terminal_insert_char(c)
    \/ \E delete_mode \in BOOLEAN : Terminal_remove_char(delete_mode)

SpecTerminal == InitTerminal /\ [][NextTerminal]_vars

\* C20: Terminal::insert_char('\n') with the cursor at (x, y) over buffer
\* index b inserts the newline at b and leaves the cursor at column 0 of row
\* y + 1, which is buffer index b + 1.
C20_NewlineToNextRow ==
    [][\A b \in 0..Len(buffer) :
          (/\ call'.op = "Terminal_insert_char"
           /\ call'.char = NL
           /\ get_buffer_coord(buffer, coord) = Some(b))
             => /\ buffer' = SubSeq(buffer, 1, b) \o <<NL>>
                                \o SubSeq(buffer, b + 1, Len(buffer))
                /\ coord' = <<0, coord[2] + 1>>
                /\ get_buffer_coord(buffer', coord') = Some(b + 1)]_vars

\* C21: Terminal::remove_char, at every cursor position and in both modes,
\* does not panic and either leaves the buffer as it is or removes one
\* character of it; Backspace at buffer coordinate 0 and Delete at buffer
\* coordinate = buffer length leave the buffer unchanged.
C21_RemoveWithinBuffer ==
    [][call'.op = "Terminal_remove_char"
          => /\ status' = "running"
             /\ \/ buffer' = buffer
                \/ \E k \in 1..Len(buffer) :
                      buffer' = SubSeq(buffer, 1, k - 1)
                                    \o SubSeq(buffer, k + 1, Len(buffer))
             /\ (~call'.delete_mode /\ get_buffer_coord(buffer, coord) = Some(0))
                   => buffer' = buffer
             /\ (call'.delete_mode
                     /\ get_buffer_coord(buffer, coord) = Some(Len(buffer)))
                   => buffer' = buffer]_vars

----------------------------------------------------------------------------
(* A session of cursor moves and word deletions (Ctrl+L), on every buffer  *)
(* of up to MaxWordLen characters.                                         *)

InitWord == InitWith(Strings(MaxWordLen), [op |-> "new"])

NextWord ==
    \/ move_key_event
    \/ remove_word

SpecWord == InitWord /\ [][NextWord]_vars

\* C22: remove_word with the cursor at index i deletes the characters in
\* [start_of_word(i), i), start_of_word taken on the buffer before the
\* deletion, leaves the others in place and the cursor at start_of_word(i).
C22_RemoveWord ==
    [][call'.op = "remove_word"
          => LET word_start == start_of_word(buffer, index)
             IN /\ status' = "running"
                /\ buffer' = SubSeq(buffer, 1, word_start)
                                 \o SubSeq(buffer, index + 1, Len(buffer))
                /\ index' = word_start]_vars

\* C23: start_of_word(i) < i for every index i with 0 < i <= size, so that
\* Ctrl+Left from a non-zero index moves the cursor to a lower index and
\* remove_word from a non-zero index shortens the buffer.
C23_WordLeftProgress ==
    /\ []((0 < index /\ index <= size(buffer))
             => start_of_word(buffer, index) < index)
    /\ [][/\ (call'.op = "move_word_left" /\ index > 0) => index' < index
          /\ (call'.op = "remove_word" /\ index > 0)
                => Len(buffer') < Len(buffer)]_vars

\* C24: after a save thread has panicked while it held the file lock, a
\* later save still takes the lock: a thread that ends its wait for the lock
\* goes on to set_len(0), and when its I/O succeeds the file gets its
\* snapshot.
C24_SaveAfterFailure ==
    [][\A t \in Threads :
          (lock.poisoned /\ saves[t].pc = "lock" /\ saves'[t].pc # "lock")
              => saves'[t].pc = "set_len" /\ lock'.holder = t]_vars

\* C25: every position Terminal::move_cursor asks the terminal for lies in
\* the window, 0 <= x <= window_length - 1 and 0 <= y <= window_height - 1,
\* and a Left move right after a Right move that wrapped from the last column
\* to column 0 of the next row puts the cursor back where it was.
C25_TargetInWindow ==
    /\ []((call.op = "Terminal_move_cursor" /\ call.target # None)
             => /\ call.target[1] \in 0..(WindowLength - 1)
                /\ call.target[2] \in 0..(WindowHeight - 1))
    /\ [][(/\ call.op = "Terminal_move_cursor"
           /\ call.movement = "Right"
           /\ call.target # None
           /\ call.target[1] = 0
           /\ call'.op = "Terminal_move_cursor"
           /\ call'.movement = "Left")
             => coord' = <<WindowLength - 1, coord[2] - 1>>]_vars

====
